---- MODULE Spec2Model ----
(***************************************************************************)
(* A model of the realtime-collab backend: the task service's request      *)
(* handlers running as independent workers over one database              *)
(* (backend/task-service/main.py), the auth service's token lifecycle      *)
(* (backend/auth-service/main.py) and the shared JWT helpers               *)
(* (backend/shared/auth_utils.py).  The specifications share the          *)
(* variables: Spec (task and project endpoints, two concurrent workers),   *)
(* AuthSpec (login, refresh, logout, /auth/me over a running clock),       *)
(* VerifySpec (/auth/verify), RegisterSpec (/auth/register), TeamSpec      *)
(* (create_team and add_team_member) and WsSpec (the WebSocket service,    *)
(* backend/websocket-service/main.py).                                     *)
(*                                                                         *)
(* Time is counted in ticks of the clock `now`.  The database is the set   *)
(* of committed rows; a worker's SQLAlchemy session holds the row it       *)
(* loaded (`loaded`) and the attribute values it has set (`local`) until   *)
(* db.commit() flushes them.  The task service names the projects model    *)
(* models.Project; it is read here as the mapped class of table            *)
(* `projects` (class Projects of shared/models.py).                        *)
(***************************************************************************)
EXTENDS Integers, Sequences, FiniteSets, TLC

VARIABLES
    now,             \* the clock (datetime.now), in ticks
    users,           \* table users: user id -> row
    teams,           \* table teams: set of rows
    team_members,    \* table team_members: set of rows
    projects,        \* table projects: set of rows
    tasks,           \* table tasks: task id -> row
    refresh_tokens,  \* table refresh_tokens: set of rows
    workers,         \* task-service request workers
    events,          \* messages published on channel task_events, in order
    issued,          \* tokens the auth service has handed to clients
    authResp,        \* the auth service's last request and its response
    teamResp,        \* the last team-endpoint request and its response
    active_connections, \* websocket service: the list active_connections
    sockets          \* websocket service: connection -> its socket and handler

vars == <<now, users, teams, team_members, projects, tasks, refresh_tokens,
          workers, events, issued, authResp, teamResp, active_connections,
          sockets>>

-----------------------------------------------------------------------------
(* Bounds of the model *)

MaxTasks   == 2      \* task ids 1..MaxTasks
MaxVer     == 1      \* a request supplies version None or 0..MaxVer
MaxTime    == 3      \* the clock runs 0..MaxTime in the auth specification
MaxIssued  == 4      \* tokens the auth service hands out in one run
MaxMembers == 3      \* rows of team_members in the team specification

(* Token lifetimes.  A tick is the resolution of a token's iat and exp     *)
(* claims; the lifetimes are scaled down to one tick for an access token   *)
(* (15 minutes in the source) and two for a refresh token (7 days).        *)
ACCESS_TOKEN_EXPIRE_MINUTES == 1
REFRESH_TOKEN_EXPIRE_DAYS   == 2

UserIds   == {1, 2, 3}
Workers   == {1, 2}  \* concurrent task-service workers, one request each
TaskIds   == 1..MaxTasks
ProjectIds == {1, 2}
TeamIds   == {1, 2}
(* The WebSocket objects of the connections clients open *)
Conns     == {1, 2, 3}

-----------------------------------------------------------------------------
(* Rows *)

NoRow == [exists |-> FALSE]

UserRow(email, hashed, active) ==
    [exists |-> TRUE, email |-> email, hashed_password |-> hashed,
     is_active |-> active]

TaskRow(st, pr, desc, pid, ver) ==
    [exists |-> TRUE, status |-> st, priority |-> pr, description |-> desc,
     project_id |-> pid, version |-> ver]

TaskFields == {"status", "description"}

-----------------------------------------------------------------------------
(* shared/auth_utils.py: tokens.  A token string is its signed claims; a   *)
(* string that is no validly signed JWT has signed = FALSE.                *)

Token(ty, uid, iat, exp) ==
    [signed |-> TRUE, type |-> ty, user_id |-> uid, iat |-> iat, exp |-> exp]

Garbage == [signed |-> FALSE, type |-> "access", user_id |-> 1, iat |-> 0, exp |-> 0]

(* An access token that carries the first user's id whoever it is for *)
AccessTokenOfFirstUser(uid, t) == Token("access", 1, t, t + ACCESS_TOKEN_EXPIRE_MINUTES)

create_access_token(uid, t) == Token("access", uid, t, t + ACCESS_TOKEN_EXPIRE_MINUTES)

create_refresh_token(uid, t) == Token("refresh", uid, t, t + REFRESH_TOKEN_EXPIRE_DAYS)

(* decode_token: jwt.decode verifies signature and exp; every JWTError is  *)
(* re-raised as JWTError, so the function returns a payload or raises.     *)
decode_token(tok, t) ==
    IF ~tok.signed \/ tok.exp < t
    THEN [raised |-> TRUE, type |-> "none", user_id |-> 0]
    ELSE [raised |-> FALSE, type |-> tok.type, user_id |-> tok.user_id]

(* hashlib.sha256(token).hexdigest(): one digest per token string *)
sha256(tok) == [sha256 |-> tok]

(* get_password_hash and verify_password: bcrypt of the password *)
get_password_hash(password) == [bcrypt |-> password]

verify_password(plain, hashed) == hashed = get_password_hash(plain)

-----------------------------------------------------------------------------
(* The Authorization header *)

NoHeader == [scheme |-> "none", token |-> Garbage]

Basic == [scheme |-> "Basic", token |-> Garbage]

Bearer(tok) == [scheme |-> "Bearer", token |-> tok]

(* Outcome of a dependency or handler: an HTTP status and detail *)
Resp(st, detail, body) == [status |-> st, detail |-> detail, body |-> body]

Admit(uid) == [status |-> 200, detail |-> "", user_id |-> uid]

Reject(st, detail) == [status |-> st, detail |-> detail, user_id |-> 0]

(* An exception no handler catches: the framework answers 500 *)
ServerError == "Internal Server Error"

(* auth-service get_current_user *)
AuthGetCurrentUser(hdr, t, us) ==
    IF hdr.scheme # "Bearer"
    THEN Reject(401, "Missing or invalid Authorization header")
    ELSE LET payload == decode_token(hdr.token, t) IN
         IF payload.raised THEN Reject(500, ServerError)
         ELSE IF payload.type # "access" THEN Reject(401, "Invalid token")
         ELSE IF payload.user_id = 0 THEN Reject(401, "Invalid token payload")
         ELSE IF ~us[payload.user_id].exists \/ ~us[payload.user_id].is_active
              THEN Reject(401, "User not found or inactive")
         ELSE Admit(payload.user_id)

(* task-service get_current_user *)
TaskGetCurrentUser(hdr, t, us) ==
    IF hdr.scheme # "Bearer" THEN Reject(401, "Missing authorization header")
    ELSE LET payload == decode_token(hdr.token, t) IN
         IF payload.raised THEN Reject(500, ServerError)
         ELSE IF ~us[payload.user_id].exists THEN Reject(401, "User not found")
         ELSE Admit(payload.user_id)

-----------------------------------------------------------------------------
(* Task service: the request a worker holds *)

Unset == "UNSET"     \* a field the PATCH body does not carry
Null  == "NULL"      \* a field the body carries as null

NoPatch == [status |-> Unset, description |-> Unset]

(* TaskUpdate bodies the workers are given *)
Patches ==
    { NoPatch,
      [status |-> "in_progress", description |-> Unset],
      [status |-> Unset, description |-> "text"],
      [status |-> Unset, description |-> Null],
      [status |-> Null, description |-> Unset] }

(* TaskUpdate.version: Optional[int]; {} is None, {n} the integer n *)
Versions == {{}} \cup {{n} : n \in 0..MaxVer}

NoResp == Resp(0, "", NoRow)

(* TaskCreate.status and TaskCreate.priority of a create_task body *)
TaskCreate(st, pr) == [status |-> st, priority |-> pr]

NoBody == TaskCreate(Unset, Unset)

(* Request bodies of create_task: nothing given, a status, a priority. *)
TaskBodies == {NoBody, TaskCreate("done", Unset), TaskCreate(Unset, "high")}

IdleWorker ==
    [pc |-> "idle", op |-> "none", hdr |-> NoHeader, uid |-> 0, tid |-> 0,
     pid |-> 0, team |-> 0, email |-> "", body |-> NoBody, patch |-> NoPatch, ver |-> {}, loaded |-> NoRow, local |-> NoRow,
     committed |-> FALSE, commit_seq |-> 0, resp |-> NoResp]

Ops == {"get_task", "update_task", "delete_task", "create_task",
        "create_project"}

(* Authorization headers presented to the task service: none, another      *)
(* scheme, a string that is no JWT, an expired access token, and the       *)
(* access tokens and a refresh token issued at the current tick.           *)
TaskHeaders ==
    { NoHeader, Basic, Bearer(Garbage),
      Bearer(create_access_token(1, 0)),
      Bearer(create_refresh_token(1, ACCESS_TOKEN_EXPIRE_MINUTES + 1)) }
    \cup { Bearer(create_access_token(u, ACCESS_TOKEN_EXPIRE_MINUTES + 1)) : u \in UserIds }

-----------------------------------------------------------------------------
(* Task service: queries *)

(* check_team_access: a membership row of the user on the team exists *)
check_team_access(uid, team) ==
    \E m \in team_members : m.user_id = uid /\ m.team_id = team

(* The project query without its membership filter *)
ProjectQueryUnscoped(pid, uid) == { p \in projects : p.id = pid }

(* db.query(Project).join(Team).join(team_members).filter(Project.id ==    *)
(* project_id, team_members.c.user_id == user).first()                     *)
ProjectQuery(pid, uid) ==
    { p \in projects :
        /\ p.id = pid
        /\ \E t \in teams : t.id = p.team_id
        /\ \E m \in team_members : m.team_id = p.team_id /\ m.user_id = uid }

(* The task query without its membership filter: a lookup by id alone *)
TaskQueryUnscoped(tid, uid) ==
    IF tid \in TaskIds /\ tasks[tid].exists THEN tasks[tid] ELSE NoRow

(* The task query with archived tasks filtered out *)
TaskQueryLive(tid, uid) ==
    IF TaskQueryUnscoped(tid, uid).exists
       /\ TaskQueryUnscoped(tid, uid).status # "archived"
       /\ ProjectQuery(tasks[tid].project_id, uid) # {}
    THEN tasks[tid]
    ELSE NoRow

(* db.query(Task).join(Project).join(Team).join(team_members).filter(      *)
(* Task.id == task_id, team_members.c.user_id == user).first(): the row,   *)
(* or NoRow when the join is empty                                         *)
TaskQuery(tid, uid) ==
    IF /\ tid \in TaskIds
       /\ tasks[tid].exists
       /\ ProjectQuery(tasks[tid].project_id, uid) # {}
    THEN tasks[tid]
    ELSE NoRow

NotFound == Resp(404, "Task not found or access denied", NoRow)

VersionConflict ==
    Resp(409, "Task was modified by another user. Please refresh and try again.", NoRow)

Forbidden == Resp(403, "You don't have access to this project", NoRow)

ForbiddenTeam == Resp(403, "You don't have access to this team", NoRow)

(* `if task_update.version and task.version != task_update.version` *)
VersionCheckFails(ver, row) ==
    \E n \in ver : n # 0 /\ row.version # n

(* model_dump(exclude_unset=True, exclude={'version'}) and the setattr loop *)
ApplyPatch(row, patch) ==
    [row EXCEPT !.status = IF patch.status = Unset THEN @ ELSE patch.status,
                !.description =
                    IF patch.description = Unset THEN @ ELSE patch.description]

(* list(update_data.keys()) *)
Changes(patch) == { f \in TaskFields : patch[f] # Unset }

(* The attributes the session's flush writes: those whose value differs    *)
(* from the value loaded.                                                   *)
Dirty(w) ==
    { f \in TaskFields \cup {"version"} : workers[w].local[f] # workers[w].loaded[f] }

(* The UPDATE statement: the dirty columns of the row as it now stands *)
Flush(row, w) ==
    [f \in DOMAIN row |-> IF f \in Dirty(w) THEN workers[w].local[f] ELSE row[f]]

-----------------------------------------------------------------------------
(* Task service: the handlers, one action per database round trip *)

(* A request arrives at an idle worker and the get_current_user dependency *)
(* runs.                                                                    *)
Authenticate(w, op, hdr) ==
    /\ workers[w].pc = "idle"
    /\ LET a == TaskGetCurrentUser(hdr, now, users) IN
       workers' = [workers EXCEPT ![w] =
           IF a.status = 200
           THEN [@ EXCEPT !.pc = "handler", !.op = op, !.hdr = hdr,
                          !.uid = a.user_id]
           ELSE [@ EXCEPT !.pc = "done", !.op = op, !.hdr = hdr,
                          !.resp = Resp(a.status, a.detail, NoRow)]]
    /\ UNCHANGED <<now, users, teams, team_members, projects, tasks,
                   refresh_tokens, events, issued, authResp, teamResp,
                   active_connections, sockets>>

(* get_task *)
GetTask(w, tid) ==
    /\ workers[w].pc = "handler" /\ workers[w].op = "get_task"
    /\ LET task == TaskQuery(tid, workers[w].uid) IN
       workers' = [workers EXCEPT ![w] =
           [@ EXCEPT !.pc = "done", !.tid = tid, !.loaded = task,
                     !.resp = IF task.exists THEN Resp(200, "", task)
                              ELSE NotFound]]
    /\ UNCHANGED <<now, users, teams, team_members, projects, tasks,
                   refresh_tokens, events, issued, authResp, teamResp,
                   active_connections, sockets>>

(* update_task up to db.commit(): the query, the version check, the        *)
(* setattr loop and task.version += 1, all on the session's copy           *)
UpdateRead(w, tid, patch, ver) ==
    /\ workers[w].pc = "handler" /\ workers[w].op = "update_task"
    /\ LET task == TaskQuery(tid, workers[w].uid) IN
       workers' = [workers EXCEPT ![w] =
           IF ~task.exists
           THEN [@ EXCEPT !.pc = "done", !.tid = tid, !.patch = patch,
                          !.ver = ver, !.resp = NotFound]
           ELSE IF VersionCheckFails(ver, task)
           THEN [@ EXCEPT !.pc = "done", !.tid = tid, !.patch = patch,
                          !.ver = ver, !.loaded = task,
                          !.resp = VersionConflict]
           ELSE [@ EXCEPT !.pc = "commit", !.tid = tid, !.patch = patch,
                          !.ver = ver, !.loaded = task,
                          !.local = [ApplyPatch(task, patch) EXCEPT
                                        !.version = task.version + 1]]]
    /\ UNCHANGED <<now, users, teams, team_members, projects, tasks,
                   refresh_tokens, events, issued, authResp, teamResp,
                   active_connections, sockets>>

(* delete_task with the event published ahead of db.commit(): the handler   *)
(* goes from the query straight to publish_event                           *)
DeleteReadPublishFirst(w, tid) ==
    /\ workers[w].pc = "handler" /\ workers[w].op = "delete_task"
    /\ LET task == TaskQuery(tid, workers[w].uid) IN
       workers' = [workers EXCEPT ![w] =
           IF ~task.exists
           THEN [@ EXCEPT !.pc = "done", !.tid = tid, !.resp = NotFound]
           ELSE [@ EXCEPT !.pc = "publish", !.tid = tid, !.loaded = task,
                          !.local = [task EXCEPT !.status = "archived"]]]
    /\ UNCHANGED <<now, users, teams, team_members, projects, tasks,
                   refresh_tokens, events, issued, authResp, teamResp,
                   active_connections, sockets>>

(* delete_task up to db.commit() *)
DeleteRead(w, tid) ==
    /\ workers[w].pc = "handler" /\ workers[w].op = "delete_task"
    /\ LET task == TaskQuery(tid, workers[w].uid) IN
       workers' = [workers EXCEPT ![w] =
           IF ~task.exists
           THEN [@ EXCEPT !.pc = "done", !.tid = tid, !.resp = NotFound]
           ELSE [@ EXCEPT !.pc = "commit", !.tid = tid, !.loaded = task,
                          !.local = [task EXCEPT !.status = "archived"]]]
    /\ UNCHANGED <<now, users, teams, team_members, projects, tasks,
                   refresh_tokens, events, issued, authResp, teamResp,
                   active_connections, sockets>>

(* The place db.commit() gives a transaction in the database's commit     *)
(* order: one past the transactions committed so far                       *)
NextCommitSeq == 1 + Cardinality({ v \in Workers : workers[v].committed })

(* db.commit() of update_task and delete_task: the flush writes the dirty  *)
(* columns and the transaction commits; a null in the NOT NULL column      *)
(* status makes the flush raise, and the request ends in a server error.   *)
Commit(w) ==
    /\ workers[w].pc = "commit"
    /\ IF "status" \in Dirty(w) /\ workers[w].local.status = Null
       THEN /\ workers' = [workers EXCEPT ![w] =
                   [@ EXCEPT !.pc = "done",
                             !.resp = Resp(500, ServerError, NoRow)]]
            /\ UNCHANGED tasks
       ELSE /\ tasks' = [tasks EXCEPT ![workers[w].tid] = Flush(@, w)]
            /\ workers' = [workers EXCEPT ![w] =
                   [@ EXCEPT !.committed = TRUE,
                             !.commit_seq = NextCommitSeq,
                             !.pc = IF workers[w].op = "delete_task"
                                    THEN "publish" ELSE "refresh"]]
    /\ UNCHANGED <<now, users, teams, team_members, projects,
                   refresh_tokens, events, issued, authResp, teamResp,
                   active_connections, sockets>>

(* The ids the tasks table has not given out *)
FreeTaskIds == { i \in TaskIds : ~tasks[i].exists }

(* models.Task(...) with the row stored as the body gives it: no default   *)
(* for a status or priority the body leaves out                            *)
NewTaskAsGiven(body, pid) ==
    TaskRow(body.status, body.priority, Null, pid, 1)

(* models.Task(...) of create_task: `task_data.status or TODO`,            *)
(* `task_data.priority or MEDIUM`, and version from the column default     *)
NewTask(body, pid) ==
    TaskRow(IF body.status = Unset THEN "todo" ELSE body.status,
            IF body.priority = Unset THEN "medium" ELSE body.priority,
            Null, pid, 1)

(* create_task up to and including db.commit(): the project access check,  *)
(* then the insert; version takes the column default                       *)
CreateTask(w, pid, st, pr) ==
    /\ workers[w].pc = "handler" /\ workers[w].op = "create_task"
    /\ IF ProjectQuery(pid, workers[w].uid) = {}
       THEN /\ workers' = [workers EXCEPT ![w] =
                   [@ EXCEPT !.pc = "done", !.pid = pid, !.resp = Forbidden]]
            /\ UNCHANGED tasks
       ELSE /\ FreeTaskIds # {}
            /\ LET id == CHOOSE i \in FreeTaskIds : \A j \in FreeTaskIds : i <= j
                   row == NewTask(TaskCreate(st, pr), pid)
               IN /\ tasks' = [tasks EXCEPT ![id] = row]
                  /\ workers' = [workers EXCEPT ![w] =
                         [@ EXCEPT !.pc = "refresh", !.tid = id, !.pid = pid,
                                   !.body = TaskCreate(st, pr),
                                   !.local = row, !.committed = TRUE,
                                   !.commit_seq = NextCommitSeq]]
    /\ UNCHANGED <<now, users, teams, team_members, projects,
                   refresh_tokens, events, issued, authResp, teamResp,
                   active_connections, sockets>>

(* The ids the projects table has not given out *)
FreeProjectIds == { i \in ProjectIds : \A p \in projects : p.id # i }

(* create_project: check_team_access, then the insert and db.commit(); no  *)
(* event is published                                                       *)
CreateProject(w, team) ==
    /\ workers[w].pc = "handler" /\ workers[w].op = "create_project"
    /\ IF ~check_team_access(workers[w].uid, team)
       THEN /\ workers' = [workers EXCEPT ![w] =
                   [@ EXCEPT !.pc = "done", !.team = team,
                             !.resp = ForbiddenTeam]]
            /\ UNCHANGED projects
       ELSE /\ FreeProjectIds # {}
            /\ LET id == CHOOSE i \in FreeProjectIds :
                             \A j \in FreeProjectIds : i <= j
               IN /\ projects' = projects \cup {[id |-> id, team_id |-> team]}
                  /\ workers' = [workers EXCEPT ![w] =
                         [@ EXCEPT !.pc = "done", !.team = team, !.pid = id,
                                   !.committed = TRUE,
                                   !.commit_seq = NextCommitSeq,
                                   !.resp = Resp(201, "", NoRow)]]
    /\ UNCHANGED <<now, users, teams, team_members, tasks, refresh_tokens,
                   events, issued, authResp, teamResp,
                   active_connections, sockets>>

(* db.refresh(task): the session re-reads the row *)
Refresh(w) ==
    /\ workers[w].pc = "refresh"
    /\ workers' = [workers EXCEPT ![w] =
           [@ EXCEPT !.pc = "publish", !.local = tasks[workers[w].tid]]]
    /\ UNCHANGED <<now, users, teams, team_members, projects, tasks,
                   refresh_tokens, events, issued, authResp, teamResp,
                   active_connections, sockets>>

(* The message publish_event builds for the worker's mutation *)
EventOf(w) ==
    LET r == workers[w] IN
    [type |-> CASE r.op = "create_task" -> "task_created"
                [] r.op = "update_task" -> "task_updated"
                [] OTHER -> "task_deleted",
     task_id |-> r.tid,
     project_id |-> r.local.project_id,
     changes |-> IF r.op = "update_task" THEN Changes(r.patch) ELSE {}]

(* The handler's return value once publish_event has returned *)
Success(w) ==
    LET r == workers[w] IN
    CASE r.op = "create_task" -> Resp(201, "", r.local)
      [] r.op = "update_task" -> Resp(200, "", r.local)
      [] OTHER -> Resp(204, "", NoRow)

(* publish_event: redis_client.publish either delivers the message or      *)
(* raises (the broker is unreachable); the handler does not catch it.      *)
Publish(w) ==
    /\ workers[w].pc = "publish"
    /\ \/ /\ events' = Append(events, EventOf(w))
          /\ workers' = [workers EXCEPT ![w] =
                 [@ EXCEPT !.pc = "done", !.resp = Success(w)]]
       \/ /\ workers' = [workers EXCEPT ![w] =
                 [@ EXCEPT !.pc = "done",
                           !.resp = Resp(500, ServerError, NoRow)]]
          /\ UNCHANGED events
    /\ UNCHANGED <<now, users, teams, team_members, projects, tasks,
                   refresh_tokens, issued, authResp, teamResp,
                   active_connections, sockets>>

(* users.is_active of a registered user is set to false.  No handler of    *)
(* the two services writes the column: the row is changed in the database  *)
(* (the credential store's setActive).                                     *)
Deactivate(u) ==
    /\ users[u].exists /\ users[u].is_active
    /\ users' = [users EXCEPT ![u].is_active = FALSE]
    /\ UNCHANGED <<now, teams, team_members, projects, tasks,
                   refresh_tokens, workers, events, issued, authResp,
                   teamResp,
                   active_connections, sockets>>

-----------------------------------------------------------------------------
(* The task service over a database holding two users, the team of user 1, *)
(* its project and one task.                                                *)

Emails == <<"a@x.com", "b@x.com", "c@x.com">>

Passwords == {"longpassword1", "longpassword2"}

(* Users 1 and 2 are registered with the first password; id 3 has no row *)
InitUsers ==
    [u \in UserIds |->
        IF u = 3 THEN NoRow
        ELSE UserRow(Emails[u], get_password_hash("longpassword1"), TRUE)]

InitTasks ==
    [i \in TaskIds |-> IF i = 1 THEN TaskRow("todo", "medium", Null, 1, 1)
                       ELSE NoRow]

NoAuthResp ==
    [op |-> "none", hdr |-> NoHeader, token |-> Garbage, status |-> 0,
     email |-> "", access |-> Garbage, refresh |-> Garbage, user_id |-> 0,
     valid |-> FALSE]

(* A connection no client has opened.  client: "none", "open" (the peer   *)
(* is connected), "closed" (the peer has gone or the server has closed     *)
(* the socket); pc: where the connection's websocket_endpoint coroutine    *)
(* is ("idle": not started, "receive": awaiting receive_text, "send": in   *)
(* the broadcast loop before send_text to active_connections[i], "ended":  *)
(* returned, "crashed": left by an exception it does not catch); i: the    *)
(* position of the `for` loop in active_connections.                       *)
NoSocket == [client |-> "none", pc |-> "idle", i |-> 0]

NoSockets == [c \in Conns |-> NoSocket]

(* No team endpoint has been called *)
NoTeamResp ==
    [op |-> "none", uid |-> 0, team_id |-> 0, email |-> "", role |-> Unset,
     status |-> 0, detail |-> ""]

Init ==
    /\ now = ACCESS_TOKEN_EXPIRE_MINUTES + 1
    /\ users = InitUsers
    /\ teams = {[id |-> 1, owner_id |-> 1]}
    /\ team_members = {[team_id |-> 1, user_id |-> 1, role |-> "owner"]}
    /\ projects = {[id |-> 1, team_id |-> 1]}
    /\ tasks = InitTasks
    /\ refresh_tokens = {}
    /\ workers = [w \in Workers |-> IdleWorker]
    /\ events = <<>>
    /\ issued = {}
    /\ authResp = NoAuthResp
    /\ teamResp = NoTeamResp
    /\ active_connections = <<>>
    /\ sockets = NoSockets

Next ==
    \/ \E w \in Workers, op \in Ops, hdr \in TaskHeaders : Authenticate(w, op, hdr)
    \/ \E w \in Workers, tid \in TaskIds : GetTask(w, tid)
    \/ \E w \in Workers, tid \in TaskIds, patch \in Patches, ver \in Versions :
           UpdateRead(w, tid, patch, ver)
    \/ \E w \in Workers, tid \in TaskIds : DeleteRead(w, tid)
    \/ \E w \in Workers, pid \in ProjectIds, body \in TaskBodies :
           CreateTask(w, pid, body.status, body.priority)
    \/ \E w \in Workers, team \in TeamIds : CreateProject(w, team)
    \/ \E w \in Workers : Commit(w)
    \/ \E w \in Workers : Refresh(w)
    \/ \E w \in Workers : Publish(w)
    \/ \E u \in UserIds : Deactivate(u)

Spec == Init /\ [][Next]_vars

-----------------------------------------------------------------------------
(* Auth service: each handler is one action; its response is kept in       *)
(* authResp.                                                                *)

(* op, hdr and token are the request (token: the body's refresh_token);   *)
(* status is the answer.  A successful login also keeps the email it was   *)
(* asked with, the access token and the user it returns; /auth/me keeps    *)
(* the user it returns, /auth/verify the `valid` flag and the user id, a   *)
(* successful refresh the refresh_token of its response.                   *)
AuthResp(op, hdr, tok, st) ==
    [op |-> op, hdr |-> hdr, token |-> tok, status |-> st,
     email |-> "", access |-> Garbage, refresh |-> Garbage, user_id |-> 0,
     valid |-> FALSE]

(* A row of refresh_tokens *)
RefreshToken(hash, uid, exp, revoked) ==
    [token_hash |-> hash, user_id |-> uid, expires_at |-> exp,
     revoked |-> revoked]

(* db.query(User).filter(User.email == email).first() *)
UserByEmail(email) ==
    { u \in UserIds : users[u].exists /\ users[u].email = email }

(* login: the user lookup, the password and active checks, the two tokens  *)
(* and the insert of the refresh token's record; token_hash is unique, so  *)
(* the insert of a hash already stored raises and nothing is returned.     *)
login(email, password) ==
    LET found == UserByEmail(email) IN
    IF \/ found = {}
       \/ \E u \in found : ~verify_password(password, users[u].hashed_password)
    THEN /\ authResp' = AuthResp("login", NoHeader, Garbage, 401)
         /\ UNCHANGED <<refresh_tokens, issued>>
    ELSE LET uid == CHOOSE u \in found : TRUE
             access == create_access_token(uid, now)
             refresh == create_refresh_token(uid, now)
         IN IF ~users[uid].is_active
            THEN /\ authResp' = AuthResp("login", NoHeader, Garbage, 403)
                 /\ UNCHANGED <<refresh_tokens, issued>>
            ELSE IF \E r \in refresh_tokens : r.token_hash = sha256(refresh)
            THEN /\ authResp' = AuthResp("login", NoHeader, Garbage, 500)
                 /\ UNCHANGED <<refresh_tokens, issued>>
            ELSE /\ Cardinality(issued \cup {access, refresh}) <= MaxIssued
                 /\ refresh_tokens' = refresh_tokens \cup
                        {RefreshToken(sha256(refresh), uid,
                                      now + REFRESH_TOKEN_EXPIRE_DAYS, FALSE)}
                 /\ issued' = issued \cup {access, refresh}
                 /\ authResp' = [AuthResp("login", NoHeader, refresh, 200)
                                    EXCEPT !.email = email, !.access = access,
                                           !.user_id = uid]

Login(email, password) ==
    /\ login(email, password)
    /\ UNCHANGED <<now, users, teams, team_members, projects, tasks,
                   workers, events, teamResp,
                   active_connections, sockets>>

(* The query of refresh_token: the record of this hash and user that is    *)
(* not revoked and expires after now                                       *)
LiveRecords(tok, uid) ==
    { r \in refresh_tokens :
        /\ r.token_hash = sha256(tok)
        /\ r.user_id = uid
        /\ ~r.revoked
        /\ r.expires_at > now }

(* refresh_token with rotation: the record of the token presented is      *)
(* marked revoked once the new access token is made                        *)
refresh_token_rotating(tok) ==
    LET payload == decode_token(tok, now) IN
    IF payload.raised
    THEN /\ authResp' = AuthResp("refresh", NoHeader, tok, 500)
         /\ UNCHANGED <<refresh_tokens, issued>>
    ELSE IF payload.type # "refresh"
    THEN /\ authResp' = AuthResp("refresh", NoHeader, tok, 401)
         /\ UNCHANGED <<refresh_tokens, issued>>
    ELSE IF LiveRecords(tok, payload.user_id) = {}
    THEN /\ authResp' = AuthResp("refresh", NoHeader, tok, 401)
         /\ UNCHANGED <<refresh_tokens, issued>>
    ELSE IF ~users[payload.user_id].exists \/ ~users[payload.user_id].is_active
    THEN /\ authResp' = AuthResp("refresh", NoHeader, tok, 401)
         /\ UNCHANGED <<refresh_tokens, issued>>
    ELSE LET access == create_access_token(payload.user_id, now) IN
         /\ Cardinality(issued \cup {access}) <= MaxIssued
         /\ issued' = issued \cup {access}
         /\ refresh_tokens' =
                { IF r \in LiveRecords(tok, payload.user_id)
                  THEN [r EXCEPT !.revoked = TRUE] ELSE r : r \in refresh_tokens }
         /\ authResp' = [AuthResp("refresh", NoHeader, tok, 200)
                            EXCEPT !.refresh = tok]

(* refresh_token: the response carries the refresh token of the request;   *)
(* the handler writes nothing to the database                              *)
refresh_token(tok) ==
    LET payload == decode_token(tok, now) IN
    IF payload.raised
    THEN /\ authResp' = AuthResp("refresh", NoHeader, tok, 500)
         /\ UNCHANGED <<refresh_tokens, issued>>
    ELSE IF payload.type # "refresh"
    THEN /\ authResp' = AuthResp("refresh", NoHeader, tok, 401)
         /\ UNCHANGED <<refresh_tokens, issued>>
    ELSE IF LiveRecords(tok, payload.user_id) = {}
    THEN /\ authResp' = AuthResp("refresh", NoHeader, tok, 401)
         /\ UNCHANGED <<refresh_tokens, issued>>
    ELSE IF ~users[payload.user_id].exists \/ ~users[payload.user_id].is_active
    THEN /\ authResp' = AuthResp("refresh", NoHeader, tok, 401)
         /\ UNCHANGED <<refresh_tokens, issued>>
    ELSE LET access == create_access_token(payload.user_id, now) IN
         /\ Cardinality(issued \cup {access}) <= MaxIssued
         /\ issued' = issued \cup {access}
         /\ UNCHANGED refresh_tokens
         /\ authResp' = [AuthResp("refresh", NoHeader, tok, 200)
                            EXCEPT !.refresh = tok]

Refresh_token(tok) ==
    /\ refresh_token(tok)
    /\ UNCHANGED <<now, users, teams, team_members, projects, tasks,
                   workers, events, teamResp,
                   active_connections, sockets>>

(* A revocation that flips the flag of the record it finds *)
ToggleRevoked(r) == [r EXCEPT !.revoked = ~@]

(* `db_token.revoked = True` on the records the logout query finds *)
Revoke(r) == [r EXCEPT !.revoked = TRUE]

(* logout with the record looked up by its hash alone *)
logout_any_user(hdr, tok) ==
    LET a == AuthGetCurrentUser(hdr, now, users) IN
    IF a.status # 200
    THEN /\ authResp' = AuthResp("logout", hdr, tok, a.status)
         /\ UNCHANGED refresh_tokens
    ELSE /\ refresh_tokens' =
               { IF r.token_hash = sha256(tok)
                 THEN Revoke(r) ELSE r : r \in refresh_tokens }
         /\ authResp' = AuthResp("logout", hdr, tok, 200)

(* logout: get_current_user, then the record of this hash and the caller   *)
(* is marked revoked                                                       *)
logout(hdr, tok) ==
    LET a == AuthGetCurrentUser(hdr, now, users) IN
    IF a.status # 200
    THEN /\ authResp' = AuthResp("logout", hdr, tok, a.status)
         /\ UNCHANGED refresh_tokens
    ELSE /\ refresh_tokens' =
               { IF r.token_hash = sha256(tok) /\ r.user_id = a.user_id
                 THEN Revoke(r) ELSE r : r \in refresh_tokens }
         /\ authResp' = AuthResp("logout", hdr, tok, 200)

Logout(hdr, tok) ==
    /\ logout(hdr, tok)
    /\ UNCHANGED <<now, users, teams, team_members, projects, tasks,
                   workers, events, issued, teamResp,
                   active_connections, sockets>>

(* GET /auth/me: get_current_user, and the user it resolved is returned *)
Me(hdr) ==
    /\ LET a == AuthGetCurrentUser(hdr, now, users) IN
       authResp' = [AuthResp("me", hdr, Garbage, a.status)
                       EXCEPT !.user_id = a.user_id]
    /\ UNCHANGED <<now, users, teams, team_members, projects, tasks,
                   refresh_tokens, workers, events, issued, teamResp,
                   active_connections, sockets>>

(* The clock advances *)
Tick ==
    /\ now < MaxTime
    /\ now' = now + 1
    /\ UNCHANGED <<users, teams, team_members, projects, tasks,
                   refresh_tokens, workers, events, issued, authResp,
                   teamResp,
                   active_connections, sockets>>

(* Token strings a client can present: those handed out, and a string      *)
(* that is no JWT                                                           *)
Presentable == issued \cup {Garbage}

AuthHeaders == {NoHeader} \cup { Bearer(t) : t \in Presentable }

(* Bodies given to logout: the refresh tokens handed out and a string that *)
(* has no record (an access token in the body has none either)             *)
LogoutBodies == { t \in issued : t.type = "refresh" } \cup {Garbage}

AuthInit ==
    /\ now = 0
    /\ users = InitUsers
    /\ teams = {[id |-> 1, owner_id |-> 1]}
    /\ team_members = {[team_id |-> 1, user_id |-> 1, role |-> "owner"]}
    /\ projects = {[id |-> 1, team_id |-> 1]}
    /\ tasks = InitTasks
    /\ refresh_tokens = {}
    /\ workers = [w \in Workers |-> IdleWorker]
    /\ events = <<>>
    /\ issued = {}
    /\ authResp = NoAuthResp
    /\ teamResp = NoTeamResp
    /\ active_connections = <<>>
    /\ sockets = NoSockets

AuthNext ==
    \/ \E u \in UserIds, password \in Passwords : Login(Emails[u], password)
    \/ \E tok \in Presentable : Refresh_token(tok)
    \/ \E hdr \in AuthHeaders, tok \in LogoutBodies : Logout(hdr, tok)
    \/ \E hdr \in AuthHeaders : Me(hdr)
    \/ \E u \in UserIds : Deactivate(u)
    \/ Tick

AuthSpec == AuthInit /\ [][AuthNext]_vars

-----------------------------------------------------------------------------
(* Auth service: POST /auth/verify, as other services call it with the     *)
(* tokens that logins hand out.                                             *)

(* verify_token: get_current_user inside `try ... except HTTPException`;   *)
(* an HTTPException is answered {valid: false}, any other exception is     *)
(* not caught                                                               *)
verify_token(hdr) ==
    LET a == AuthGetCurrentUser(hdr, now, users) IN
    authResp' =
        IF a.status = 200
        THEN [AuthResp("verify", hdr, Garbage, 200)
                 EXCEPT !.valid = TRUE, !.user_id = a.user_id]
        ELSE IF a.status = 500
        THEN AuthResp("verify", hdr, Garbage, 500)
        ELSE AuthResp("verify", hdr, Garbage, 200)

Verify(hdr) ==
    /\ verify_token(hdr)
    /\ UNCHANGED <<now, users, teams, team_members, projects, tasks,
                   refresh_tokens, workers, events, issued, teamResp,
                   active_connections, sockets>>

(* Headers given to /auth/verify: none, another scheme, and Bearer with a  *)
(* string that is no JWT or a token handed out                             *)
VerifyHeaders == AuthHeaders \cup {Basic}

VerifyNext ==
    \/ \E u \in UserIds, password \in Passwords : Login(Emails[u], password)
    \/ \E hdr \in VerifyHeaders : Verify(hdr)
    \/ \E u \in UserIds : Deactivate(u)
    \/ Tick

VerifySpec == AuthInit /\ [][VerifyNext]_vars

-----------------------------------------------------------------------------
(* Auth service: POST /auth/register, one worker per request; the query    *)
(* for the email and the commit of the new row are two database round      *)
(* trips.                                                                   *)

EmailRegistered == Resp(400, "Email already registered", NoRow)

(* The ids the users table has not given out *)
FreeUserIds == { u \in UserIds : ~users[u].exists }

(* register up to db.add(db_user): the query for the email, the 400 when a *)
(* row has it, else the new User object (is_active defaults to true)       *)
RegisterCheck(w, email, password) ==
    /\ workers[w].pc = "idle"
    /\ workers' = [workers EXCEPT ![w] =
           IF UserByEmail(email) # {}
           THEN [@ EXCEPT !.pc = "done", !.op = "register", !.email = email,
                          !.resp = EmailRegistered]
           ELSE [@ EXCEPT !.pc = "insert", !.op = "register", !.email = email,
                          !.local = UserRow(email, get_password_hash(password),
                                            TRUE)]]
    /\ UNCHANGED <<now, users, teams, team_members, projects, tasks,
                   refresh_tokens, events, issued, authResp, teamResp,
                   active_connections, sockets>>

(* db.commit() of register: the INSERT; users.email is unique, so the      *)
(* insert of an email a row already has raises IntegrityError, which the   *)
(* handler does not catch.  Otherwise the row gets the next id and the     *)
(* handler returns it.                                                      *)
RegisterCommit(w) ==
    /\ workers[w].pc = "insert" /\ workers[w].op = "register"
    /\ IF UserByEmail(workers[w].email) # {}
       THEN /\ workers' = [workers EXCEPT ![w] =
                   [@ EXCEPT !.pc = "done",
                             !.resp = Resp(500, ServerError, NoRow)]]
            /\ UNCHANGED users
       ELSE /\ FreeUserIds # {}
            /\ LET id == CHOOSE u \in FreeUserIds :
                              \A v \in FreeUserIds : u <= v
               IN /\ users' = [users EXCEPT ![id] = workers[w].local]
                  /\ workers' = [workers EXCEPT ![w] =
                         [@ EXCEPT !.pc = "done", !.uid = id,
                                   !.committed = TRUE,
                                   !.resp = Resp(201, "", workers[w].local)]]
    /\ UNCHANGED <<now, teams, team_members, projects, tasks,
                   refresh_tokens, events, issued, authResp, teamResp,
                   active_connections, sockets>>

(* One user is registered; ids 2 and 3 have no row *)
RegisterInit ==
    /\ now = 0
    /\ users = [u \in UserIds |->
                  IF u = 1
                  THEN UserRow(Emails[1], get_password_hash("longpassword1"),
                               TRUE)
                  ELSE NoRow]
    /\ teams = {}
    /\ team_members = {}
    /\ projects = {}
    /\ tasks = [i \in TaskIds |-> NoRow]
    /\ refresh_tokens = {}
    /\ workers = [w \in Workers |-> IdleWorker]
    /\ events = <<>>
    /\ issued = {}
    /\ authResp = NoAuthResp
    /\ teamResp = NoTeamResp
    /\ active_connections = <<>>
    /\ sockets = NoSockets

RegisterNext ==
    \/ \E w \in Workers, u \in UserIds, password \in Passwords :
           RegisterCheck(w, Emails[u], password)
    \/ \E w \in Workers : RegisterCommit(w)

RegisterSpec == RegisterInit /\ [][RegisterNext]_vars

-----------------------------------------------------------------------------
(* Task service: the team endpoints.  Each handler is one transaction and  *)
(* one action (team_members rows are only ever inserted, so a handler's    *)
(* membership check cannot be undone before its insert); its response is   *)
(* kept in teamResp.                                                        *)

(* models.TeamRole *)
TeamRole == {"owner", "admin", "member", "viewer"}

TeamResp(op, uid, team, email, role, st, detail) ==
    [op |-> op, uid |-> uid, team_id |-> team, email |-> email, role |-> role,
     status |-> st, detail |-> detail]

(* A row of team_members *)
MemberRow(team, uid, role) == [team_id |-> team, user_id |-> uid, role |-> role]

(* An insert into a table without the primary key: the row is added *)
InsertMemberNoKey(rows, row) == [raised |-> FALSE, rows |-> rows \cup {row}]

(* An insert that overwrites the row of the same (team_id, user_id) *)
UpsertMember(rows, row) ==
    [raised |-> FALSE,
     rows |-> { m \in rows : ~(m.team_id = row.team_id /\ m.user_id = row.user_id) }
                 \cup {row}]

(* team_members.insert() under the primary key (team_id, user_id): a row   *)
(* of the same pair makes the statement raise IntegrityError               *)
InsertMember(rows, row) ==
    IF \E m \in rows : m.team_id = row.team_id /\ m.user_id = row.user_id
    THEN [raised |-> TRUE, rows |-> rows]
    ELSE [raised |-> FALSE, rows |-> rows \cup {row}]

(* The membership query without its role filter *)
AnyMembership(team, uid) ==
    { m \in team_members : m.team_id = team /\ m.user_id = uid }

(* The first query of add_team_member: the caller's row on the team with   *)
(* role owner or admin                                                      *)
ManagingMembership(team, uid) ==
    { m \in team_members :
        /\ m.team_id = team
        /\ m.user_id = uid
        /\ m.role \in {"owner", "admin"} }

(* create_team committing the team without a membership row *)
NoOwnerRows(team, uid) == {}

(* The team_members row create_team inserts for the creator *)
OwnerRows(team, uid) == {MemberRow(team, uid, "owner")}

(* The ids the teams table has not given out *)
FreeTeamIds == { i \in TeamIds : \A t \in teams : t.id # i }

(* create_team: the team, db.flush(), the creator's owner row, and one     *)
(* db.commit() for both                                                     *)
create_team(uid) ==
    /\ FreeTeamIds # {}
    /\ Cardinality(team_members) < MaxMembers
    /\ LET id == CHOOSE i \in FreeTeamIds : \A j \in FreeTeamIds : i <= j IN
       /\ teams' = teams \cup {[id |-> id, owner_id |-> uid]}
       /\ team_members' = team_members \cup OwnerRows(id, uid)
       /\ teamResp' = TeamResp("create_team", uid, id, "", Unset, 201, "")

CreateTeam(hdr) ==
    /\ LET a == TaskGetCurrentUser(hdr, now, users) IN
       IF a.status # 200
       THEN /\ teamResp' = TeamResp("create_team", 0, 0, "", Unset,
                                    a.status, a.detail)
            /\ UNCHANGED <<teams, team_members>>
       ELSE create_team(a.user_id)
    /\ UNCHANGED <<now, users, projects, tasks, refresh_tokens, workers,
                   events, issued, authResp,
                   active_connections, sockets>>

(* add_team_member for an admitted caller *)
add_team_member(uid, team, email, role) ==
    IF ManagingMembership(team, uid) = {}
    THEN /\ teamResp' = TeamResp("add_team_member", uid, team, email, role,
                                 403, "Only team owners/admins can add members")
         /\ UNCHANGED team_members
    ELSE IF UserByEmail(email) = {}
    THEN /\ teamResp' = TeamResp("add_team_member", uid, team, email, role,
                                 404, "User not found")
         /\ UNCHANGED team_members
    ELSE LET new_member == CHOOSE u \in UserByEmail(email) : TRUE
             stmt == InsertMember(team_members,
                        MemberRow(team, new_member,
                                  IF role = Null THEN "member" ELSE role))
         IN IF stmt.raised
            THEN /\ teamResp' =
                       TeamResp("add_team_member", uid, team, email, role,
                                400, "User is already a member of this team")
                 /\ team_members' = stmt.rows
            ELSE /\ Cardinality(team_members) < MaxMembers
                 /\ teamResp' =
                       TeamResp("add_team_member", uid, team, email, role,
                                200, "")
                 /\ team_members' = stmt.rows

AddTeamMember(hdr, team, email, role) ==
    /\ LET a == TaskGetCurrentUser(hdr, now, users) IN
       IF a.status # 200
       THEN /\ teamResp' = TeamResp("add_team_member", 0, team, email, role,
                                    a.status, a.detail)
            /\ UNCHANGED team_members
       ELSE add_team_member(a.user_id, team, email, role)
    /\ UNCHANGED <<now, users, teams, projects, tasks, refresh_tokens,
                   workers, events, issued, authResp,
                   active_connections, sockets>>

(* All three users are registered *)
TeamUsers ==
    [u \in UserIds |-> UserRow(Emails[u], get_password_hash("longpassword1"), TRUE)]

(* Authorization headers presented to the team endpoints *)
TeamHeaders ==
    {NoHeader} \cup
    { Bearer(create_access_token(u, ACCESS_TOKEN_EXPIRE_MINUTES + 1)) : u \in UserIds }

(* TeamMemberAdd.email: the registered addresses and one that is not *)
MemberEmails == { Emails[u] : u \in UserIds } \cup {"nobody@x.com"}

(* TeamMemberAdd.role as the callers send it: null, which is stored as     *)
(* member, or one of two roles that cannot add members and can             *)
MemberRoles == {Null, "viewer", "admin"}

TeamInit ==
    /\ now = ACCESS_TOKEN_EXPIRE_MINUTES + 1
    /\ users = TeamUsers
    /\ teams = {[id |-> 1, owner_id |-> 1]}
    /\ team_members = {[team_id |-> 1, user_id |-> 1, role |-> "owner"]}
    /\ projects = {[id |-> 1, team_id |-> 1]}
    /\ tasks = InitTasks
    /\ refresh_tokens = {}
    /\ workers = [w \in Workers |-> IdleWorker]
    /\ events = <<>>
    /\ issued = {}
    /\ authResp = NoAuthResp
    /\ teamResp = NoTeamResp
    /\ active_connections = <<>>
    /\ sockets = NoSockets

TeamNext ==
    \/ \E hdr \in TeamHeaders : CreateTeam(hdr)
    \/ \E hdr \in TeamHeaders, team \in TeamIds, email \in MemberEmails,
          role \in MemberRoles : AddTeamMember(hdr, team, email, role)

TeamSpec == TeamInit /\ [][TeamNext]_vars

-----------------------------------------------------------------------------
(* WebSocket service: websocket_endpoint runs as one coroutine per         *)
(* connection on one event loop; a step is the code between two awaits.    *)

(* The variables of the other services *)
RestOfState == <<now, users, teams, team_members, projects, tasks,
               refresh_tokens, workers, events, issued, authResp, teamResp>>

(* list.remove(x) *)
Remove(list, x) == SelectSeq(list, LAMBDA y : y # x)

(* send_text on the socket succeeds: the peer is connected and the         *)
(* connection's handler has not returned                                   *)
CanReceive(d) ==
    sockets[d].client = "open" /\ sockets[d].pc \in {"receive", "send"}

(* A client opens a connection: websocket.accept() and                     *)
(* active_connections.append(websocket), then the first receive_text       *)
Accept(c) ==
    /\ sockets[c].client = "none"
    /\ active_connections' = Append(active_connections, c)
    /\ sockets' = [sockets EXCEPT ![c] =
           [client |-> "open", pc |-> "receive", i |-> 0]]
    /\ UNCHANGED RestOfState

(* The peer of a connection goes away *)
ClientDisconnects(c) ==
    /\ sockets[c].client = "open"
    /\ sockets' = [sockets EXCEPT ![c].client = "closed"]
    /\ UNCHANGED <<RestOfState, active_connections>>

(* receive_text returns a message and the `for` loop starts *)
ReceiveText(c) ==
    /\ sockets[c].pc = "receive" /\ sockets[c].client = "open"
    /\ sockets' = [sockets EXCEPT ![c].pc = "send", ![c].i = 1]
    /\ UNCHANGED <<RestOfState, active_connections>>

(* receive_text raises WebSocketDisconnect: the except branch removes the  *)
(* handler's websocket and the coroutine returns                           *)
ReceiveDisconnect(c) ==
    /\ sockets[c].pc = "receive" /\ sockets[c].client = "closed"
    /\ active_connections' = Remove(active_connections, c)
    /\ sockets' = [sockets EXCEPT ![c].pc = "ended"]
    /\ UNCHANGED RestOfState

(* What the handler of c does when an exception leaves its `try` body.     *)
(* WebSocketDisconnect is caught: active_connections.remove(websocket)     *)
(* removes the handler's own websocket.  Any other exception is not        *)
(* caught: the coroutine is left with the list as it is.  Either way the   *)
(* server closes c's socket.                                               *)
Raise(c, exc) ==
    IF exc = "WebSocketDisconnect"
    THEN /\ active_connections' = Remove(active_connections, c)
         /\ sockets' = [sockets EXCEPT ![c].pc = "ended",
                                       ![c].client = "closed"]
    ELSE /\ UNCHANGED active_connections
         /\ sockets' = [sockets EXCEPT ![c].pc = "crashed",
                                       ![c].client = "closed"]

(* The exceptions send_text on a socket that cannot receive raises: the    *)
(* server and framework version decide which                               *)
SendErrors == {"WebSocketDisconnect", "RuntimeError"}

(* One turn of `for connection in active_connections`: the loop is over    *)
(* when the position is past the end of the list as it now is; else        *)
(* connection.send_text, which delivers or raises                          *)
SendText(c, exc) ==
    /\ sockets[c].pc = "send"
    /\ IF sockets[c].i > Len(active_connections)
       THEN /\ sockets' = [sockets EXCEPT ![c].pc = "receive", ![c].i = 0]
            /\ UNCHANGED active_connections
       ELSE IF CanReceive(active_connections[sockets[c].i])
       THEN /\ sockets' = [sockets EXCEPT ![c].i = @ + 1]
            /\ UNCHANGED active_connections
       ELSE Raise(c, exc)
    /\ UNCHANGED RestOfState

WsInit ==
    /\ now = 0
    /\ users = InitUsers
    /\ teams = {}
    /\ team_members = {}
    /\ projects = {}
    /\ tasks = [i \in TaskIds |-> NoRow]
    /\ refresh_tokens = {}
    /\ workers = [w \in Workers |-> IdleWorker]
    /\ events = <<>>
    /\ issued = {}
    /\ authResp = NoAuthResp
    /\ teamResp = NoTeamResp
    /\ active_connections = <<>>
    /\ sockets = NoSockets

WsNext ==
    \/ \E c \in Conns : Accept(c)
    \/ \E c \in Conns : ClientDisconnects(c)
    \/ \E c \in Conns : ReceiveText(c)
    \/ \E c \in Conns : ReceiveDisconnect(c)
    \/ \E c \in Conns, exc \in SendErrors : SendText(c, exc)

WsSpec == WsInit /\ [][WsNext]_vars

-----------------------------------------------------------------------------
(* Properties of the task service *)

(* The worker's request has left the handler's query behind *)
PastQuery(w) == workers[w].pc \notin {"idle", "handler"}

(* db.commit() of the worker's update_task on task t has returned *)
UpdateCommitted(w, t) ==
    /\ workers[w].op = "update_task"
    /\ workers[w].tid = t
    /\ workers[w].committed

(* C1: two update_task requests on the same task that each supply the same *)
(* expected version T and each read the task at stored version T never     *)
(* both commit: one succeeds, every other one fails with VersionConflict.  *)
C1_ExactlyOneWins ==
    \A w1, w2 \in Workers :
        ( /\ w1 # w2
          /\ workers[w1].op = "update_task" /\ workers[w2].op = "update_task"
          /\ PastQuery(w1) /\ PastQuery(w2)
          /\ workers[w1].tid = workers[w2].tid
          /\ workers[w1].ver = workers[w2].ver
          /\ workers[w1].loaded.exists /\ workers[w2].loaded.exists
          /\ workers[w1].ver = {workers[w1].loaded.version}
          /\ workers[w2].ver = {workers[w2].loaded.version} )
        => ~(workers[w1].committed /\ workers[w2].committed)

(* C2: an update_task whose supplied expected version differs from the     *)
(* stored version it read is rejected with VersionConflict and commits     *)
(* nothing.                                                                 *)
C2_MismatchRejected ==
    \A w \in Workers :
        ( /\ workers[w].op = "update_task"
          /\ PastQuery(w)
          /\ workers[w].loaded.exists
          /\ workers[w].ver # {}
          /\ workers[w].loaded.version \notin workers[w].ver )
        => ( /\ workers[w].pc = "done"
             /\ workers[w].resp = VersionConflict
             /\ ~workers[w].committed )

(* The task the request names does not exist, or the caller has no         *)
(* membership row on the team of the task's project.                       *)
NoAccess(w) ==
    LET r == workers[w] IN
    \/ ~tasks[r.tid].exists
    \/ \A p \in projects :
          p.id = tasks[r.tid].project_id => ~check_team_access(r.uid, p.team_id)

(* The authenticated get/update/delete requests of callers without access *)
Outsiders ==
    { w \in Workers :
        /\ PastQuery(w)
        /\ workers[w].uid # 0
        /\ workers[w].op \in {"get_task", "update_task", "delete_task"}
        /\ NoAccess(w) }

(* C4: a caller with no membership row on the task's team gets NotFound    *)
(* from get_task, update_task and delete_task, the very response a         *)
(* nonexistent task id gets; such a request commits nothing, and while no  *)
(* other request has reached its handler's query the tasks are as they     *)
(* were and no event is published.                                         *)
C4_OutsiderGetsNotFound ==
    /\ \A w \in Outsiders :
          /\ workers[w].pc = "done"
          /\ workers[w].resp = NotFound
          /\ ~workers[w].committed
    /\ (\A w \in Workers : PastQuery(w) => (w \in Outsiders \/ workers[w].uid = 0))
          => (tasks = InitTasks /\ events = <<>>)

(* C4 witness: a non-member's update_task on an existing task and a        *)
(* member's update_task on an id without a row have both been answered,    *)
(* with the same response.                                                  *)
C4_Witness ==
    \E w1, w2 \in Workers :
        /\ workers[w1].pc = "done" /\ workers[w2].pc = "done"
        /\ workers[w1].op = "update_task" /\ workers[w2].op = "update_task"
        /\ workers[w1].uid = 2 /\ tasks[workers[w1].tid].exists
        /\ workers[w2].uid = 1 /\ ~tasks[workers[w2].tid].exists
        /\ workers[w1].resp = workers[w2].resp

(* C5: a validly signed, unexpired refresh token in the Authorization      *)
(* header is rejected as Unauthorized by the task service.                 *)
C5_AccessTokenOnly ==
    \A w \in Workers :
        ( /\ workers[w].pc # "idle"
          /\ workers[w].hdr.scheme = "Bearer"
          /\ workers[w].hdr.token.signed
          /\ workers[w].hdr.token.type = "refresh" )
        => (workers[w].pc = "done" /\ workers[w].resp.status = 401)

(* C6: a request is admitted to a handler only when the token's user is    *)
(* active at the time of admission.                                        *)
C6_ActiveUserOnly ==
    [][\A w \in Workers :
          (workers[w].pc = "idle" /\ workers'[w].pc = "handler")
              => users[workers'[w].uid].is_active]_vars

(* C7: every request that get_current_user does not admit ends in 401 *)
C7_UniformUnauthorized ==
    \A w \in Workers :
        (workers[w].pc = "done" /\ workers[w].uid = 0)
            => workers[w].resp.status = 401

(* C8: every change of a stored task raises its version by exactly 1 *)
C8_VersionStep ==
    [][\A t \in TaskIds :
          (tasks[t].exists /\ tasks'[t] # tasks[t])
              => tasks'[t].version = tasks[t].version + 1]_vars

(* C9: when every committed update_task on a task supplied no version and  *)
(* no delete_task on it has committed, the stored version is the initial   *)
(* version 1 plus the number of committed updates.                         *)
C9_VersionCountsUpdates ==
    \A t \in TaskIds :
        ( /\ tasks[t].exists
          /\ \A w \in Workers : UpdateCommitted(w, t) => workers[w].ver = {}
          /\ \A w \in Workers :
                ~(workers[w].op = "delete_task" /\ workers[w].tid = t
                  /\ workers[w].committed) )
        => tasks[t].version = 1 + Cardinality({w \in Workers : UpdateCommitted(w, t)})

(* C10: a request whose mutation has committed ends with its success       *)
(* response, whatever publish_event does.                                  *)
C10_PublishFailureSwallowed ==
    \A w \in Workers :
        (workers[w].committed /\ workers[w].pc = "done")
            => workers[w].resp.status \in {200, 201, 204}

(* The statuses of a rejected request: Unauthorized, Forbidden, NotFound,   *)
(* VersionConflict                                                          *)
Rejections == {401, 403, 404, 409}

(* The requests whose mutation has committed and whose event is out *)
Published ==
    { w \in Workers :
        /\ workers[w].pc = "done"
        /\ workers[w].committed
        /\ workers[w].op \in {"create_task", "update_task", "delete_task"}
        /\ workers[w].resp.status \in {200, 201, 204} }

(* C11: a task event is published only after the commit of the mutation it *)
(* describes: a request reaches publish_event only with its transaction    *)
(* committed, every published event is the event of a committed request on *)
(* a stored task, there are no more events than such requests, and a       *)
(* rejected request has committed nothing and published nothing.           *)
C11_PublishAfterCommit ==
    /\ \A w \in Workers : workers[w].pc = "publish" => workers[w].committed
    /\ \A w \in Workers :
          workers[w].resp.status \in Rejections
              => (~workers[w].committed /\ w \notin Published)
    /\ Len(events) <= Cardinality(Published)
    /\ \A i \in 1..Len(events) :
          /\ tasks[events[i].task_id].exists
          /\ \E w \in Published : EventOf(w) = events[i]

(* C11 witness: one update_task was rejected with VersionConflict, the     *)
(* other committed and its event is the only one published.                *)
C11_Witness ==
    \E w1, w2 \in Workers :
        /\ workers[w1].pc = "done" /\ workers[w1].resp = VersionConflict
        /\ w2 \in Published /\ workers[w2].op = "update_task"
        /\ events = <<EventOf(w2)>>

(* C12: the events of two committed mutations of one task are published   *)
(* in the order the mutations committed: no request publishes its event    *)
(* when a request on the same task that committed after it has its event   *)
(* on the channel already (two equal messages have no order to tell).      *)
C12_EventsInCommitOrder ==
    [][\A w \in Workers :
          (workers[w].pc = "publish" /\ events' = Append(events, EventOf(w)))
              => ~\E v \in Published :
                     /\ v # w
                     /\ workers[v].tid = workers[w].tid
                     /\ EventOf(v) # EventOf(w)
                     /\ workers[v].commit_seq > workers[w].commit_seq]_vars

(* The user holds a team_members row, of any role, on the team *)
IsMember(uid, team) ==
    \E m \in team_members : m.user_id = uid /\ m.team_id = team

Mutators == {"create_task", "update_task", "delete_task", "create_project"}

(* The teams owning what the worker's request is on: the team named by     *)
(* create_project, the team of create_task's project, the team of the      *)
(* project of update_task's or delete_task's task                           *)
OwningTeams(w) ==
    LET r == workers[w] IN
    CASE r.op = "create_project" -> { t \in TeamIds : t = r.team }
      [] r.op = "create_task" ->
            { p.team_id : p \in { q \in projects : q.id = r.pid } }
      [] OTHER ->
            IF r.tid \in TaskIds /\ tasks[r.tid].exists
            THEN { p.team_id :
                     p \in { q \in projects : q.id = tasks[r.tid].project_id } }
            ELSE {}

(* The admitted mutating requests, past their access check, of callers     *)
(* with no membership row on the owning team                                *)
NonMembers ==
    { w \in Workers :
        /\ PastQuery(w)
        /\ workers[w].uid # 0
        /\ workers[w].op \in Mutators
        /\ \A t \in OwningTeams(w) : ~IsMember(workers[w].uid, t) }

(* db.commit() of the worker's mutation returns in this step *)
Commits(w) == ~workers[w].committed /\ workers'[w].committed

(* C18: a non-member's create_task, update_task, delete_task or            *)
(* create_project is answered 403 or 404 and commits nothing; a commit is  *)
(* always that of a member of the owning team; a task row or the projects  *)
(* table changes only in the commit of such a member's request; and every  *)
(* event published is that of a committed request of a member.             *)
C18_MembersOnlyMutate ==
    [][/\ \A w \in NonMembers' :
             /\ workers'[w].pc = "done"
             /\ workers'[w].resp.status \in {403, 404}
             /\ ~workers'[w].committed
       /\ \A w \in Workers :
             Commits(w) =>
                /\ workers'[w].op \in Mutators
                /\ OwningTeams(w)' # {}
                /\ \A t \in OwningTeams(w)' : IsMember(workers'[w].uid, t)
       /\ \A t \in TaskIds :
             tasks'[t] # tasks[t] =>
                \E w \in Workers : Commits(w) /\ workers'[w].tid = t
       /\ projects' # projects =>
             \E w \in Workers :
                /\ Commits(w) /\ workers'[w].op = "create_project"
                /\ projects' = projects \cup
                      {[id |-> workers'[w].pid, team_id |-> workers'[w].team]}
       /\ events' # events =>
             \E w \in Workers :
                /\ workers[w].pc = "publish" /\ workers[w].committed
                /\ w \notin NonMembers
                /\ events' = Append(events, EventOf(w))
      ]_vars

(* C18 witness: user 2, on no team, was refused create_project and user 1, *)
(* the team's owner, has created project 2.                                 *)
C18_Witness ==
    \E w1, w2 \in Workers :
        /\ workers[w1].op = "create_project" /\ workers[w1].uid = 2
        /\ workers[w1].pc = "done" /\ workers[w1].resp = ForbiddenTeam
        /\ workers[w2].op = "create_project" /\ workers[w2].uid = 1
        /\ workers[w2].committed
        /\ [id |-> 2, team_id |-> 1] \in projects

(* The step is the db.commit() of the worker's delete_task *)
DeleteCommits(w) ==
    workers[w].op = "delete_task" /\ workers[w].pc = "commit" /\ Commits(w)

(* The step is get_task answering a member of the team of the task asked   *)
(* for, the task having a row                                               *)
MemberGets(w) ==
    /\ workers[w].op = "get_task"
    /\ workers[w].pc = "handler" /\ workers'[w].pc = "done"
    /\ tasks[workers'[w].tid].exists
    /\ \E p \in projects :
          /\ p.id = tasks[workers'[w].tid].project_id
          /\ IsMember(workers[w].uid, p.team_id)

(* C22: delete_task is a soft delete.  No step removes a task row; the     *)
(* commit of a delete_task leaves the row in place with status archived    *)
(* and every other column as stored (a task read as archived already is    *)
(* left as stored); and get_task of a member returns the stored row,       *)
(* archived or not.                                                         *)
C22_SoftDelete ==
    [][/\ \A t \in TaskIds : tasks[t].exists => tasks'[t].exists
       /\ \A w \in Workers :
             DeleteCommits(w) =>
                LET t == workers[w].tid IN
                IF workers[w].loaded.status = "archived"
                THEN tasks' = tasks
                ELSE tasks' = [tasks EXCEPT ![t].status = "archived"]
       /\ \A w \in Workers :
             MemberGets(w) =>
                workers'[w].resp = Resp(200, "", tasks[workers'[w].tid])
      ]_vars

(* C22 witness: a member's delete_task has been answered and a member's    *)
(* get_task of the same task returned the row, archived.                    *)
C22_Witness ==
    \E w1, w2 \in Workers :
        /\ workers[w1].op = "delete_task" /\ workers[w1].pc = "done"
        /\ workers[w1].resp.status = 204
        /\ workers[w2].op = "get_task" /\ workers[w2].pc = "done"
        /\ workers[w2].tid = workers[w1].tid
        /\ workers[w2].resp.status = 200
        /\ workers[w2].resp.body.status = "archived"
        /\ tasks[workers[w1].tid].status = "archived"

(* C23: the row create_task commits has version 1, the status and the     *)
(* priority of the body where the body gives them, and status todo and     *)
(* priority medium where it does not.                                       *)
C23_CreateDefaults ==
    [][\A w \in Workers :
          (workers[w].op = "create_task" /\ Commits(w)) =>
             LET t == workers'[w].tid
                 b == workers'[w].body
             IN /\ ~tasks[t].exists /\ tasks'[t].exists
                /\ tasks'[t].version = 1
                /\ tasks'[t].project_id = workers'[w].pid
                /\ tasks'[t].status =
                      (IF b.status = Unset THEN "todo" ELSE b.status)
                /\ tasks'[t].priority =
                      (IF b.priority = Unset THEN "medium" ELSE b.priority)
      ]_vars

(* C23 witness: a create_task whose body gives a priority and no status    *)
(* has committed its row.                                                   *)
C23_Witness ==
    \E w \in Workers :
        /\ workers[w].op = "create_task" /\ workers[w].committed
        /\ workers[w].body = TaskCreate(Unset, "high")
        /\ tasks[workers[w].tid] = TaskRow("todo", "high", Null, workers[w].pid, 1)

(* The step is the db.commit() of the worker's update_task *)
UpdateCommits(w) ==
    workers[w].op = "update_task" /\ workers[w].pc = "commit" /\ Commits(w)

(* The step is publish_event of the worker's update_task delivering *)
UpdatePublishes(w) ==
    /\ workers[w].op = "update_task"
    /\ workers[w].pc = "publish" /\ workers'[w].pc = "done"
    /\ Len(events') = Len(events) + 1

(* C25: the commit of an update_task leaves every other task as stored,    *)
(* stores for each field present in the patch the value the patch gives    *)
(* (null included) and leaves every column absent from the patch, other    *)
(* than version, as stored; the event it publishes lists exactly the       *)
(* fields present in the patch.                                            *)
C25_PatchFrame ==
    [][\A w \in Workers :
          LET t == workers[w].tid
              p == workers[w].patch
          IN
          /\ UpdateCommits(w) =>
                /\ \A u \in TaskIds \ {t} : tasks'[u] = tasks[u]
                /\ \A f \in DOMAIN tasks[t] \ {"version"} :
                      IF f \in TaskFields /\ p[f] # Unset
                      THEN tasks'[t][f] = p[f]
                      ELSE tasks'[t][f] = tasks[t][f]
          /\ UpdatePublishes(w) =>
                LET e == events'[Len(events')] IN
                /\ e.type = "task_updated" /\ e.task_id = t
                /\ e.changes = { f \in TaskFields : p[f] # Unset }
      ]_vars

(* The worker's update_task gave the version it read, read the task       *)
(* before a delete_task of it committed, and is at its own db.commit()     *)
UpdateAcrossDelete(w) ==
    /\ workers[w].op = "update_task" /\ workers[w].pc = "commit"
    /\ workers[w].ver = {workers[w].loaded.version}
    /\ workers[w].loaded.status # "archived"
    /\ tasks[workers[w].tid].status = "archived"
    /\ \E v \in Workers :
          /\ workers[v].op = "delete_task" /\ workers[v].committed
          /\ workers[v].tid = workers[w].tid

(* C28: an update_task that gave the version it read, with a delete_task   *)
(* of the task committed between its read and its commit, ends in          *)
(* VersionConflict and leaves the archived row as stored.                  *)
C28_DeleteDetected ==
    [][\A w \in Workers :
          (UpdateAcrossDelete(w) /\ workers'[w].pc # "commit") =>
             /\ workers'[w].resp = VersionConflict
             /\ tasks' = tasks
      ]_vars

-----------------------------------------------------------------------------
(* Properties of the auth service *)

(* C3: once a refresh token's record is revoked it stays revoked, and      *)
(* every refresh with that token from then on is answered 401.             *)
C3_RevokedStaysDead ==
    [][\A r \in refresh_tokens :
          r.revoked =>
             /\ \E r2 \in refresh_tokens' :
                   r2.token_hash = r.token_hash /\ r2.revoked
             /\ (authResp'.op = "refresh" /\ sha256(authResp'.token) = r.token_hash)
                   => authResp'.status = 401]_vars

(* The step is the auth service answering a refresh request *)
RefreshAnswered ==
    /\ authResp'.op = "refresh"
    /\ now' = now /\ users' = users /\ refresh_tokens' = refresh_tokens

(* The stored records of the token the refresh request presents *)
RecordsOf(tok) == { r \in refresh_tokens : r.token_hash = sha256(tok) }

(* C14: refresh with a token whose stored record was never revoked and has *)
(* expires_at <= now is answered 401 and hands out no access token.        *)
C14_ExpiredRecordRejected ==
    [][( /\ RefreshAnswered
         /\ \E r \in RecordsOf(authResp'.token) :
               ~r.revoked /\ r.expires_at <= now )
          => (authResp'.status = 401 /\ issued' = issued)]_vars

(* The conditions under which refresh is to hand out an access token: the  *)
(* token is validly signed, unexpired and of type refresh, a record of its *)
(* hash is stored for the token's user, not revoked and expiring after     *)
(* now, and the user exists and is active.                                  *)
RefreshConditions(tok) ==
    /\ tok.signed /\ tok.exp >= now /\ tok.type = "refresh"
    /\ \E r \in RecordsOf(tok) :
          r.user_id = tok.user_id /\ ~r.revoked /\ r.expires_at > now
    /\ users[tok.user_id].exists /\ users[tok.user_id].is_active

(* C15: refresh hands out a new access token exactly when the conditions   *)
(* hold, and answers 401 in every other case.                               *)
C15_RefreshIffLive ==
    [][RefreshAnswered =>
          IF RefreshConditions(authResp'.token)
          THEN /\ authResp'.status = 200
               /\ create_access_token(authResp'.token.user_id, now) \in issued'
          ELSE /\ authResp'.status = 401
               /\ issued' = issued]_vars

(* The step is the auth service answering GET /auth/me *)
MeAnswered ==
    /\ authResp'.op = "me"
    /\ now' = now /\ users' = users /\ refresh_tokens' = refresh_tokens
    /\ issued' = issued

(* The step is a login answered 200 *)
LoginAnswered ==
    /\ authResp'.op = "login" /\ authResp'.status = 200
    /\ refresh_tokens' # refresh_tokens

(* C16: the access token a successful login returns is admitted by         *)
(* get_current_user at every time up to its expiry, as the user the login  *)
(* email belongs to; whenever /auth/me admits a request, the token is one  *)
(* the service handed out, is not past its expiry, and the user returned   *)
(* is the user the token was made for, never another; and /auth/me with    *)
(* the access token of the last login, before its expiry and with the user *)
(* still active, returns the user who logged in.                            *)
C16_LoginThenValidate ==
    [][/\ LoginAnswered =>
            \A t \in now..MaxTime :
               LET a == AuthGetCurrentUser(Bearer(authResp'.access), t, users') IN
               /\ t <= authResp'.access.exp =>
                     (a.status = 200 /\ a.user_id \in UserByEmail(authResp'.email))
               /\ a.status = 200 => a.user_id \in UserByEmail(authResp'.email)
       /\ (MeAnswered /\ authResp'.status = 200) =>
             /\ authResp'.hdr.token \in issued
             /\ authResp'.hdr.token.type = "access"
             /\ now <= authResp'.hdr.token.exp
             /\ authResp'.user_id = authResp'.hdr.token.user_id
             /\ users[authResp'.user_id].exists
       /\ (authResp.op = "login" /\ authResp.status = 200 /\ MeAnswered
             /\ authResp'.hdr = Bearer(authResp.access)
             /\ now <= authResp.access.exp
             /\ users[authResp.user_id].is_active)
            => ( /\ authResp'.status = 200
                 /\ authResp'.user_id \in UserByEmail(authResp.email) )
      ]_vars

(* C16 witness: /auth/me admitted user 2 with an access token a tick after *)
(* the login that made it.                                                  *)
C16_Witness ==
    /\ authResp.op = "me" /\ authResp.status = 200
    /\ authResp.user_id = 2
    /\ authResp.hdr.token.iat < now

(* The step is the auth service answering a logout whose caller           *)
(* get_current_user admits                                                  *)
LogoutAdmitted ==
    /\ authResp'.op = "logout"
    /\ now' = now /\ users' = users /\ issued' = issued
    /\ AuthGetCurrentUser(authResp'.hdr, now, users).status = 200

(* The records logout looks for: those of the body's token and the caller *)
LogoutRecords ==
    { r \in RecordsOf(authResp'.token) :
        r.user_id = AuthGetCurrentUser(authResp'.hdr, now, users).user_id }

(* C17: a logout of an admitted caller always succeeds; when the token has *)
(* no record of the caller, or only revoked ones, the store is left as it  *)
(* was; otherwise only the revoked flag of those records changes, to true; *)
(* and a logout repeated right after itself changes nothing.               *)
C17_LogoutIdempotent ==
    [][LogoutAdmitted =>
          /\ authResp'.status = 200
          /\ (\A r \in LogoutRecords : r.revoked)
                => refresh_tokens' = refresh_tokens
          /\ refresh_tokens' =
                (refresh_tokens \ LogoutRecords)
                   \cup { [r EXCEPT !.revoked = TRUE] : r \in LogoutRecords }
          /\ (authResp.op = "logout" /\ authResp.status = 200
                /\ authResp'.hdr = authResp.hdr
                /\ authResp'.token = authResp.token)
                => refresh_tokens' = refresh_tokens
      ]_vars

(* C17 witness: a logout with a token string that has no record was        *)
(* answered 200 while the store holds the revoked record of an earlier     *)
(* logout.                                                                  *)
C17_Witness ==
    /\ authResp.op = "logout" /\ authResp.status = 200
    /\ RecordsOf(authResp.token) = {}
    /\ \E r \in refresh_tokens : r.revoked

(* The step is the auth service answering POST /auth/logout *)
LogoutStep ==
    /\ authResp'.op = "logout"
    /\ now' = now /\ users' = users /\ issued' = issued

(* C29: a logout rewrites at most one record, adds and removes none; the   *)
(* record it rewrites has the hash of the token presented and the user_id  *)
(* of the caller get_current_user admitted, and only its revoked flag      *)
(* changes.  Records of other users and other records of the caller are    *)
(* left as stored.                                                          *)
C29_LogoutTouchesOwnRecord ==
    [][LogoutStep =>
          LET a == AuthGetCurrentUser(authResp'.hdr, now, users)
              rewritten == refresh_tokens \ refresh_tokens'
          IN
          /\ Cardinality(rewritten) <= 1
          /\ Cardinality(refresh_tokens') = Cardinality(refresh_tokens)
          /\ \A r \in rewritten :
                /\ a.status = 200
                /\ r.token_hash = sha256(authResp'.token)
                /\ r.user_id = a.user_id
                /\ [r EXCEPT !.revoked = TRUE] \in refresh_tokens'
      ]_vars

(* A logout was answered 200 for a caller who presented the refresh token  *)
(* of another user, whose record is not revoked, while the caller's own    *)
(* record is not revoked either                                            *)
C29_Witness ==
    /\ authResp.op = "logout" /\ authResp.status = 200
    /\ \E r \in RecordsOf(authResp.token) :
          r.user_id # authResp.hdr.token.user_id /\ ~r.revoked
    /\ \E r \in refresh_tokens :
          r.user_id = authResp.hdr.token.user_id /\ ~r.revoked

(* The step is the auth service answering POST /auth/refresh *)
RefreshStep ==
    /\ authResp'.op = "refresh"
    /\ now' = now /\ users' = users

(* The stored record of tok is live: of the token's user, not revoked, not *)
(* expired                                                                 *)
IsRefreshTokenLive(tok, store, t) ==
    \E r \in store :
        /\ r.token_hash = sha256(tok) /\ r.user_id = tok.user_id
        /\ ~r.revoked /\ r.expires_at > t

(* C26 as stated: no refresh writes to refresh_tokens, and a refresh with  *)
(* a live token is answered 200 with the same refresh token, which is      *)
(* still live.                                                             *)
C26_LiveTokenAlwaysRefreshes ==
    [][RefreshStep =>
          /\ refresh_tokens' = refresh_tokens
          /\ IsRefreshTokenLive(authResp'.token, refresh_tokens, now) =>
                /\ authResp'.status = 200
                /\ authResp'.refresh = authResp'.token
                /\ IsRefreshTokenLive(authResp'.token, refresh_tokens', now')
      ]_vars

(* C26, amended: no refresh writes to refresh_tokens, and a refresh with a *)
(* live token of a user who is active is answered 200 with the same        *)
(* refresh token, which is still live.                                     *)
C26_RefreshKeepsToken ==
    [][RefreshStep =>
          /\ refresh_tokens' = refresh_tokens
          /\ ( /\ IsRefreshTokenLive(authResp'.token, refresh_tokens, now)
               /\ users[authResp'.token.user_id].is_active ) =>
                /\ authResp'.status = 200
                /\ authResp'.refresh = authResp'.token
                /\ IsRefreshTokenLive(authResp'.token, refresh_tokens', now')
      ]_vars

(* A renewal after the login's tick: a refresh answered 200 for a user who *)
(* holds two access tokens, the refresh token still live                   *)
C26_Witness ==
    /\ authResp.op = "refresh" /\ authResp.status = 200
    /\ authResp.refresh = authResp.token
    /\ IsRefreshTokenLive(authResp.token, refresh_tokens, now)
    /\ Cardinality({ t \in issued : t.type = "access"
                                     /\ t.user_id = authResp.token.user_id }) >= 2

(* C30: a login with the password of an active user is answered 200 and   *)
(* adds exactly one record to refresh_tokens, whose token_hash no record   *)
(* stored before has; the records stored before are left as they are.     *)
C30_LoginAlwaysStores ==
    [][\A u \in UserIds, password \in Passwords :
          ( /\ Login(Emails[u], password)
            /\ users[u].exists /\ users[u].is_active
            /\ verify_password(password, users[u].hashed_password) ) =>
              /\ authResp'.status = 200
              /\ refresh_tokens \subseteq refresh_tokens'
              /\ Cardinality(refresh_tokens' \ refresh_tokens) = 1
              /\ \A r \in refresh_tokens' \ refresh_tokens :
                    \A q \in refresh_tokens : q.token_hash # r.token_hash
      ]_vars

(* The step is the auth service answering POST /auth/verify *)
VerifyAnswered ==
    /\ authResp'.op = "verify"
    /\ now' = now /\ users' = users /\ issued' = issued

(* The header passes authentication: Bearer with a validly signed,         *)
(* unexpired access token of a user who exists and is active               *)
PassesAuthentication(hdr) ==
    /\ hdr.scheme = "Bearer"
    /\ hdr.token.signed /\ hdr.token.exp >= now
    /\ hdr.token.type = "access"
    /\ users[hdr.token.user_id].exists
    /\ users[hdr.token.user_id].is_active

(* C24: /auth/verify always answers 200, with valid true and the token's   *)
(* user id exactly when the header passes authentication, and valid false  *)
(* for every other header.                                                  *)
C24_VerifyNeverErrors ==
    [][VerifyAnswered =>
          /\ authResp'.status = 200
          /\ authResp'.valid = PassesAuthentication(authResp'.hdr)
          /\ authResp'.valid => authResp'.user_id = authResp'.hdr.token.user_id
      ]_vars

-----------------------------------------------------------------------------
(* Properties of POST /auth/register *)

(* The step answers the worker's register request *)
RegisterAnswered(w) ==
    /\ workers'[w].op = "register"
    /\ workers[w].pc # "done" /\ workers'[w].pc = "done"

(* C27: no email has two users; a register request answered when a user    *)
(* has its email already is answered 400 "Email already registered" and    *)
(* leaves users as it is; one answered when no user has the email is       *)
(* answered 201 and its email then has a user.                             *)
C27_RegisterUnique ==
    [][/\ \A u, v \in UserIds :
             (users'[u].exists /\ users'[v].exists
                 /\ users'[u].email = users'[v].email) => u = v
       /\ \A w \in Workers :
             RegisterAnswered(w) =>
                IF UserByEmail(workers'[w].email) # {}
                THEN workers'[w].resp = EmailRegistered /\ users' = users
                ELSE /\ workers'[w].resp.status = 201
                     /\ \E u \in UserIds :
                           users'[u].exists
                              /\ users'[u].email = workers'[w].email
      ]_vars

-----------------------------------------------------------------------------
(* Properties of the team endpoints *)

(* The step answers an add_team_member of an admitted caller *)
AddAnswered == teamResp'.op = "add_team_member" /\ teamResp'.uid # 0

(* The users TeamMemberAdd.email of the request just answered names who    *)
(* had a row on the request's team before the step                         *)
AlreadyMembers ==
    { u \in UserByEmail(teamResp'.email) :
        AnyMembership(teamResp'.team_id, u) # {} }

(* C13: add_team_member by an owner or admin of the team for a user who    *)
(* has a row on the team is answered 400 "User is already a member of this *)
(* team", and no add_team_member at all changes or removes a stored row:   *)
(* the role held before is the role held after, whatever role was asked.   *)
C13_ReAddRejected ==
    [][/\ ( /\ AddAnswered
            /\ ManagingMembership(teamResp'.team_id, teamResp'.uid) # {}
            /\ AlreadyMembers # {} )
          => ( /\ teamResp'.status = 400
               /\ teamResp'.detail = "User is already a member of this team"
               /\ team_members' = team_members )
       /\ \A m \in team_members :
             /\ m \in team_members'
             /\ m.role \in TeamRole
             /\ \A m2 \in team_members' :
                   (m2.team_id = m.team_id /\ m2.user_id = m.user_id) => m2 = m
      ]_vars

(* C13 witness: an add asking for role admin was answered 400 for a user   *)
(* who is on the team as viewer.                                            *)
C13_Witness ==
    /\ teamResp.op = "add_team_member"
    /\ teamResp.status = 400
    /\ teamResp.role = "admin"
    /\ \E u \in UserByEmail(teamResp.email) :
          MemberRow(teamResp.team_id, u, "viewer") \in team_members

(* C19: add_team_member changes team_members only when the caller has a    *)
(* row on the team with role owner or admin; an admitted caller who has a  *)
(* row with another role, or none, is answered 403 and team_members is     *)
(* unchanged.                                                               *)
C19_OnlyManagersAdd ==
    [][AddAnswered =>
          /\ ManagingMembership(teamResp'.team_id, teamResp'.uid) = {}
                => ( /\ teamResp'.status = 403
                     /\ teamResp'.detail = "Only team owners/admins can add members"
                     /\ team_members' = team_members )
          /\ team_members' # team_members
                => \E m \in team_members :
                      /\ m.team_id = teamResp'.team_id
                      /\ m.user_id = teamResp'.uid
                      /\ m.role \in {"owner", "admin"}
      ]_vars

(* C19 witness: a caller who is on the team as member or viewer was         *)
(* answered 403.                                                            *)
C19_Witness ==
    /\ teamResp.op = "add_team_member"
    /\ teamResp.status = 403
    /\ \E m \in team_members :
          /\ m.team_id = teamResp.team_id
          /\ m.user_id = teamResp.uid
          /\ m.role \in {"member", "viewer"}

(* C20: every stored team has the membership row of its creator with role  *)
(* owner.                                                                   *)
C20_TeamHasOwnerRow ==
    \A t \in teams : MemberRow(t.id, t.owner_id, "owner") \in team_members

(* C20 witness: a team was created by a request and a member was added to  *)
(* it afterwards.                                                           *)
C20_Witness ==
    /\ \E t \in teams : t.id = 2 /\ t.owner_id # 1
    /\ teamResp.op = "add_team_member"
    /\ teamResp.team_id = 2
    /\ teamResp.status = 200

(* C21: team_members holds at most one row, hence one role, for each        *)
(* (team, user) pair, whatever add_team_member requests were made, the     *)
(* ones repeating a pair included.                                          *)
C21_OneRowPerPair ==
    \A m1, m2 \in team_members :
        (m1.team_id = m2.team_id /\ m1.user_id = m2.user_id) => m1 = m2

(* C21 witness: a second add of a pair, asking for another role than the   *)
(* stored one, has been answered and the pair has its one row.             *)
C21_Witness ==
    /\ teamResp.op = "add_team_member"
    /\ teamResp.status = 400
    /\ teamResp.role = "viewer"
    /\ \E u \in UserByEmail(teamResp.email) :
          AnyMembership(teamResp.team_id, u) = {MemberRow(teamResp.team_id, u, "admin")}

-----------------------------------------------------------------------------
(* Properties of the WebSocket service *)

InList(list, c) == \E k \in 1..Len(list) : list[k] = c

(* The list holds accepted connections only, none whose handler is over,   *)
(* and every connection whose peer is connected and whose handler runs     *)
ListIsExact(list, socks) ==
    \A c \in Conns :
        /\ InList(list, c) => socks[c].client # "none"
        /\ socks[c].pc \in {"ended", "crashed"} => ~InList(list, c)
        /\ (socks[c].client = "open" /\ socks[c].pc \in {"receive", "send"})
              => InList(list, c)

(* The step is the handler of c leaving its broadcast loop because         *)
(* send_text to the connection at the loop's position failed               *)
SendFails(c) ==
    /\ sockets[c].pc = "send" /\ sockets'[c].pc # "send"
    /\ sockets[c].i <= Len(active_connections)
    /\ ~CanReceive(active_connections[sockets[c].i])

(* C31: after every step active_connections holds exactly the connections *)
(* accepted and not done with, and a send that fails in the broadcast of   *)
(* another connection's handler removes the connection it failed on, the   *)
(* handler's own connection staying in the list.                           *)
C31_FailedConnectionRemoved ==
    [][/\ ListIsExact(active_connections', sockets')
       /\ \A c \in Conns :
             (SendFails(c) /\ active_connections[sockets[c].i] # c) =>
                active_connections' =
                   Remove(active_connections, active_connections[sockets[c].i])
      ]_vars

====
